---- MODULE Spec2Model ----
(***************************************************************************)
(* The two-location vacuum world of VacumWorldTest.py: the environment     *)
(* VacuumWorld, the four agents (RandomAgent, TableBasedAgent, ReflexAgent,*)
(* ModelBasedAgent) and the episode loop run_simulation.                   *)
(*                                                                         *)
(* Python values: dirt flags are booleans; a belief of ModelBasedAgent is  *)
(* None or a boolean, written None / Some(b); a position is "A" or "B"     *)
(* (last_position is "None" before the first update); an action is one of  *)
(* the strings "Suck", "Left", "Right".                                    *)
(***************************************************************************)
EXTENDS Integers, Sequences, FiniteSets, TLC

\* Largest max_actions a caller passes to run_simulation in this model.
MaxActionsBound == 10

VARIABLES
    world,          \* VacuumWorld.state: [A, B, position]
    state,          \* run_simulation's local snapshot `state`
    agent,          \* the agent object passed to run_simulation
    model,          \* ModelBasedAgent.model
    last_position,  \* ModelBasedAgent.last_position
    max_actions,    \* run_simulation's parameter
    i,              \* iterations of the for loop executed so far
    action,         \* run_simulation's local `action`
    result,         \* value returned by the last finished run_simulation
    pc,             \* position in run_simulation
    nDecide,        \* history: decide_action calls made in this episode
    nApplied,       \* history: actions applied to the world in this episode
    state0,         \* history: the state produced by reset in this episode
    model0,         \* history: ModelBasedAgent.model when the episode was entered
    peer,           \* a second, ReflexAgent episode run side by side
    last_call,      \* history: the last method a client called directly
    memo            \* history: one earlier TableBasedAgent call and its answer

vars == <<world, state, agent, model, last_position, max_actions, i, action,
          result, pc, nDecide, nApplied, state0, model0, peer, last_call, memo>>

runVars == <<world, state, agent, model, last_position, max_actions, i,
             action, result, pc, nDecide, nApplied, state0, model0>>

----------------------------------------------------------------------------
(* Values *)

locations == <<"A", "B">>

Loc == {locations[k] : k \in 1..Len(locations)}

None == <<>>

Some(b) == <<b>>

Beliefs == {None, Some(TRUE), Some(FALSE)}

Agents == {"Random", "TableBased", "Reflex", "ModelBased"}

Actions == {"Suck", "Left", "Right"}

\* Every value reset can produce: two coin flips and a random position.
reset == [A : BOOLEAN, B : BOOLEAN, position : Loc]

----------------------------------------------------------------------------
(* VacuumWorld *)

is_dirty(w, location) == w[location]

clean_nothing(w, location) == w

clean_soils_other(w, location) ==
    [w EXCEPT ![location] = FALSE, ![IF location = "A" THEN "B" ELSE "A"] = TRUE]

clean_toggle(w, location) == [w EXCEPT ![location] = ~@]

clean(w, location) == [w EXCEPT ![location] = FALSE]

move(w, new_location) == [w EXCEPT !.position = new_location]

is_clean(w) == (~w.A) /\ (~w.B)

\* dict.copy(): a value equal to the environment's dict, held separately.
get_state(w) == [A |-> w.A, B |-> w.B, position |-> w.position]

----------------------------------------------------------------------------
(* Agents.  Each decide operator yields the set of actions the call can     *)
(* return (a singleton unless random.choice is involved).                  *)

RandomAgent_decide_action_noop(s) == {"Suck", "Left", "Right", "NoOp"}

RandomAgent_decide_action(s) == {"Suck", "Left", "Right"}

table_incomplete ==
    (<<"A", TRUE, TRUE>> :> "Suck") @@ (<<"A", TRUE, FALSE>> :> "Suck") @@
    (<<"A", FALSE, TRUE>> :> "Right") @@ (<<"A", FALSE, FALSE>> :> "Right") @@
    (<<"B", TRUE, TRUE>> :> "Suck") @@ (<<"B", TRUE, FALSE>> :> "Suck") @@
    (<<"B", FALSE, TRUE>> :> "Left")

table ==
    (<<"A", TRUE, TRUE>> :> "Suck") @@ (<<"A", TRUE, FALSE>> :> "Suck") @@
    (<<"A", FALSE, TRUE>> :> "Right") @@ (<<"A", FALSE, FALSE>> :> "Right") @@
    (<<"B", TRUE, TRUE>> :> "Suck") @@ (<<"B", TRUE, FALSE>> :> "Suck") @@
    (<<"B", FALSE, TRUE>> :> "Left") @@ (<<"B", FALSE, FALSE>> :> "Left")

TableBasedAgent_decide_action_unstable(s) ==
    LET key == <<s.position, s.A, s.B>>
    IN  IF key \in DOMAIN table THEN {table[key], "Suck"} ELSE {"Suck"}

TableBasedAgent_decide_action(s) ==
    LET key == <<s.position, s.A, s.B>>
    IN  IF key \in DOMAIN table THEN {table[key]} ELSE {"Suck"}

ReflexAgent_decide_action_stay(s) ==
    LET current_pos == s.position
    IN  IF s[current_pos] THEN {"Suck"}
        ELSE IF current_pos = "A" THEN {"Left"} ELSE {"Right"}

ReflexAgent_decide_action(s) ==
    LET current_pos == s.position
    IN  IF s[current_pos] THEN {"Suck"}
        ELSE IF current_pos = "A" THEN {"Right"} ELSE {"Left"}

ModelBasedAgent_reset_clean ==
    [model |-> [A |-> Some(FALSE), B |-> Some(FALSE)], last_position |-> "None"]

\* ModelBasedAgent.__init__ and ModelBasedAgent.reset build the same memory.
ModelBasedAgent_reset == [model |-> [A |-> None, B |-> None], last_position |-> "None"]

update_model_all(m, lp, s) ==
    [model |-> [A |-> Some(s.A), B |-> Some(s.B)], last_position |-> s.position]

update_model(m, lp, s) ==
    LET current_pos == s.position
    IN  [model |-> [m EXCEPT ![current_pos] = Some(s[current_pos])],
         last_position |-> current_pos]

\* The part of ModelBasedAgent.decide_action after update_model; m is the
\* model as updated.
ModelBasedAgent_choose_nowander(m, s) ==
    LET current_pos == s.position
        other_pos == IF current_pos = "A" THEN "B" ELSE "A"
        toward == IF current_pos = "A" THEN "Right" ELSE "Left"
    IN  IF s[current_pos] THEN {"Suck"} ELSE {toward}

ModelBasedAgent_choose_wander_unknown(m, s) ==
    LET current_pos == s.position
        other_pos == IF current_pos = "A" THEN "B" ELSE "A"
        toward == IF current_pos = "A" THEN "Right" ELSE "Left"
    IN  IF s[current_pos] THEN {"Suck"}
        ELSE IF m[other_pos] = Some(TRUE) THEN {toward}
        ELSE {"Left", "Right"}

ModelBasedAgent_choose(m, s) ==
    LET current_pos == s.position
        other_pos == IF current_pos = "A" THEN "B" ELSE "A"
        toward == IF current_pos = "A" THEN "Right" ELSE "Left"
    IN  IF s[current_pos] THEN {"Suck"}
        ELSE IF m[other_pos] = Some(TRUE) THEN {toward}
        ELSE IF m[other_pos] = None THEN {toward}
        ELSE {"Left", "Right"}

\* hasattr(agent, 'reset'): only ModelBasedAgent defines reset.
hasattr_reset_none(a) == FALSE

hasattr_reset(a) == a = "ModelBased"

\* The memory of the ModelBasedAgent object after agent.decide_action(s);
\* the other agents never touch it.
memory_after_decide(a, m, lp, s) ==
    IF a = "ModelBased" THEN update_model(m, lp, s)
    ELSE [model |-> m, last_position |-> lp]

\* agent.decide_action(s), dispatched on the agent's class; m is the
\* ModelBasedAgent memory after its update.
decide_action(a, m, s) ==
    CASE a = "Random" -> RandomAgent_decide_action(s)
      [] a = "TableBased" -> TableBasedAgent_decide_action(s)
      [] a = "Reflex" -> ReflexAgent_decide_action(s)
      [] a = "ModelBased" -> ModelBasedAgent_choose(m, s)

----------------------------------------------------------------------------
(* run_simulation *)

\* `for _ in range(max_actions)`: another iteration starts iff k < max_actions.
loop_continues_inclusive(k, max) == k <= max

loop_continues(k, max) == k < max

apply_action_swapped(w, s, act) ==
    CASE act = "Suck" -> clean(w, s.position)
      [] act = "Left" -> move(w, "B")
      [] act = "Right" -> move(w, "A")
      [] OTHER -> w

\* The if/elif chain applying the action; an action outside the three
\* matches no branch and leaves the world alone.
apply_action(w, s, act) ==
    CASE act = "Suck" -> clean(w, s.position)
      [] act = "Left" -> move(w, "A")
      [] act = "Right" -> move(w, "B")
      [] OTHER -> w

\* `if world.is_clean(): break`
breaks_never(w) == FALSE

breaks(w) == is_clean(w)

\* `return world.is_clean()`
return_value_true(w) == TRUE

return_value(w) == is_clean(w)

----------------------------------------------------------------------------
(* The state machine.  pc is the caller's position: "idle" before the first *)
(* call, "loop" at the head of the for loop, "apply" between decide_action  *)
(* and the application of its action, "return" at the return statement,     *)
(* "done" after run_simulation has returned.                                *)

\* No second episode is running.
NoPeer == [pc |-> "off", world |-> [A |-> FALSE, B |-> FALSE, position |-> "A"],
           state |-> [A |-> FALSE, B |-> FALSE, position |-> "A"],
           max_actions |-> 0, i |-> 0, action |-> "None", result |-> FALSE]

\* No method has been called directly.
NoCall == [op |-> "none", loc |-> "none", again |-> FALSE]

\* No TableBasedAgent call has been remembered.
NoMemo == [key |-> <<>>, action |-> "None", old |-> FALSE]

Other(location) == IF location = "A" THEN "B" ELSE "A"

\* Where the branch of run_simulation taken for a move puts the agent.
MoveTarget(act) == IF act = "Left" THEN "A" ELSE "B"

\* run_experiments up to its first call: the world built by VacuumWorld()
\* (whose __init__ calls reset) and the agents as constructed.
Init ==
    /\ world \in reset
    /\ state = world
    /\ agent = "Random"
    /\ model = ModelBasedAgent_reset.model
    /\ last_position = ModelBasedAgent_reset.last_position
    /\ max_actions = 0
    /\ i = 0
    /\ action = "None"
    /\ result = FALSE
    /\ pc = "idle"
    /\ nDecide = 0
    /\ nApplied = 0
    /\ state0 = world
    /\ model0 = model
    /\ peer = NoPeer
    /\ last_call = NoCall
    /\ memo = NoMemo

\* run_simulation(a, world, m) up to the for loop: world.reset() yields s,
\* and an agent with a reset method has its memory reset.
CallStep(a, m, s) ==
    /\ pc \in {"idle", "done"}
    /\ agent' = a
    /\ max_actions' = m
    /\ world' = s
    /\ state' = get_state(s)
    /\ IF hasattr_reset(a)
       THEN /\ model' = ModelBasedAgent_reset.model
            /\ last_position' = ModelBasedAgent_reset.last_position
       ELSE UNCHANGED <<model, last_position>>
    /\ i' = 0
    /\ action' = "None"
    /\ pc' = "loop"
    /\ nDecide' = 0
    /\ nApplied' = 0
    /\ state0' = s
    /\ model0' = model
    /\ UNCHANGED result

\* action = a.decide_action(s): the ModelBasedAgent updates its memory
\* first; the call returns one of the actions its class can choose.
AgentDecides(a, s) ==
    LET mem == memory_after_decide(a, model, last_position, s)
    IN  /\ model' = mem.model
        /\ last_position' = mem.last_position
        /\ action' \in decide_action(a, mem.model, s)

\* action = agent.decide_action(state)
DecideStep ==
    /\ pc = "loop"
    /\ loop_continues(i, max_actions)
    /\ AgentDecides(agent, state)
    /\ pc' = "apply"
    /\ nDecide' = nDecide + 1
    /\ UNCHANGED <<world, state, agent, max_actions, i, result, nApplied,
                   state0, model0>>

\* The rest of the loop body: apply the action, take a new snapshot, and
\* leave the loop if the world is clean.
ApplyStep ==
    /\ pc = "apply"
    /\ world' = apply_action(world, state, action)
    /\ state' = get_state(world')
    /\ nApplied' = nApplied + (IF action \in Actions THEN 1 ELSE 0)
    /\ i' = i + 1
    /\ pc' = IF breaks(world') THEN "return" ELSE "loop"
    /\ UNCHANGED <<agent, model, last_position, max_actions, action, result,
                   nDecide, state0, model0>>

\* range(max_actions) is exhausted.
ExitLoopStep ==
    /\ pc = "loop"
    /\ ~loop_continues(i, max_actions)
    /\ pc' = "return"
    /\ UNCHANGED <<world, state, agent, model, last_position, max_actions, i,
                   action, result, nDecide, nApplied, state0, model0>>

\* return world.is_clean()
ReturnStep ==
    /\ pc = "return"
    /\ result' = return_value(world)
    /\ pc' = "done"
    /\ UNCHANGED <<world, state, agent, model, last_position, max_actions, i,
                   action, nDecide, nApplied, state0, model0>>

Call == \E a \in Agents, m \in 0..MaxActionsBound, s \in reset :
            CallStep(a, m, s) /\ last_call' = NoCall /\ UNCHANGED <<peer, memo>>

Decide == DecideStep /\ UNCHANGED <<peer, last_call, memo>>

Apply == ApplyStep /\ UNCHANGED <<peer, last_call, memo>>

ExitLoop == ExitLoopStep /\ UNCHANGED <<peer, last_call, memo>>

Return == ReturnStep /\ UNCHANGED <<peer, last_call, memo>>

Next == Call \/ Decide \/ Apply \/ ExitLoop \/ Return

Spec == Init /\ [][Next]_vars

----------------------------------------------------------------------------
(* Two episodes side by side: run_simulation with the TableBasedAgent in    *)
(* the variables above, and run_simulation with the ReflexAgent in `peer`,  *)
(* both from the same reset state and with the same max_actions.  Each     *)
(* step advances every episode that has not returned by one step.          *)

\* run_simulation(ReflexAgent(), world, m) up to the for loop.
PeerCall(m, s) ==
    [pc |-> "loop", world |-> s, state |-> get_state(s), max_actions |-> m,
     i |-> 0, action |-> "None", result |-> FALSE]

\* The peer records one step of run_simulation can lead to from p.
PeerNext(p) ==
    CASE p.pc = "loop" /\ loop_continues(p.i, p.max_actions) ->
            {[p EXCEPT !.action = act, !.pc = "apply"] :
                act \in decide_action("Reflex", model, p.state)}
      [] p.pc = "loop" /\ ~loop_continues(p.i, p.max_actions) ->
            {[p EXCEPT !.pc = "return"]}
      [] p.pc = "apply" ->
            LET w == apply_action(p.world, p.state, p.action)
            IN  {[p EXCEPT !.world = w, !.state = get_state(w), !.i = @ + 1,
                           !.pc = IF breaks(w) THEN "return" ELSE "loop"]}
      [] p.pc = "return" ->
            {[p EXCEPT !.result = return_value(p.world), !.pc = "done"]}
      [] OTHER -> {p}

PairCall ==
    \E m \in 0..MaxActionsBound, s \in reset :
        /\ peer.pc \in {"off", "done"}
        /\ CallStep("TableBased", m, s)
        /\ peer' = PeerCall(m, s)
        /\ UNCHANGED <<last_call, memo>>

PairStep ==
    /\ pc \notin {"idle", "done"} \/ peer.pc \notin {"off", "done"}
    /\ IF pc \in {"idle", "done"}
       THEN UNCHANGED runVars
       ELSE DecideStep \/ ApplyStep \/ ExitLoopStep \/ ReturnStep
    /\ peer' \in PeerNext(peer)
    /\ UNCHANGED <<last_call, memo>>

PairNext == PairCall \/ PairStep

PairSpec == Init /\ [][PairNext]_vars

----------------------------------------------------------------------------
(* decide_action called directly: a client holding the four agents calls   *)
(* a.decide_action(s) with any agent a and any state s, in any order.      *)

\* The key TableBasedAgent.decide_action builds from a state.
TableKey(s) == <<s.position, s.A, s.B>>

\* (memo remembers at most one TableBasedAgent call, chosen freely among
\* the calls made; it is marked old once a later call has been made.)
DirectCall ==
    \E a \in Agents, s \in reset :
        /\ pc = "idle"
        /\ agent' = a
        /\ state' = s
        /\ AgentDecides(a, s)
        /\ \/ memo' = IF memo = NoMemo THEN memo ELSE [memo EXCEPT !.old = TRUE]
           \/ /\ a = "TableBased"
              /\ memo = NoMemo
              /\ memo' = [key |-> TableKey(s), action |-> action', old |-> FALSE]
        /\ UNCHANGED <<world, max_actions, i, result, pc, nDecide, nApplied,
                       state0, model0, peer, last_call>>

DirectNext == DirectCall

DirectSpec == Init /\ [][DirectNext]_vars

----------------------------------------------------------------------------
(* A client that uses the environment directly before it runs episodes:    *)
(* it calls reset, get_state, clean and move in any order and may write to *)
(* the dict that reset or get_state handed it.                             *)

\* Whether the dict returned by reset / get_state is the environment's own
\* dict object: both return self.state.copy(), a new dict.
returns_own_dict_alias == TRUE

returns_own_dict == FALSE

Called(op, loc) ==
    [op |-> op, loc |-> loc, again |-> last_call.op = op /\ last_call.loc = loc]

\* world.reset(), the result kept by the client
EnvReset ==
    /\ pc = "idle"
    /\ world' \in reset
    /\ state' = get_state(world')
    /\ last_call' = Called("reset", "none")
    /\ UNCHANGED <<agent, model, last_position, max_actions, i, action, result,
                   pc, nDecide, nApplied, state0, model0, peer, memo>>

\* world.get_state(), the result kept by the client
EnvGetState ==
    /\ pc = "idle"
    /\ state' = get_state(world)
    /\ last_call' = Called("get_state", "none")
    /\ UNCHANGED <<world, agent, model, last_position, max_actions, i, action,
                   result, pc, nDecide, nApplied, state0, model0, peer, memo>>

\* world.clean(location)
EnvClean ==
    \E location \in Loc :
        /\ pc = "idle"
        /\ world' = clean(world, location)
        /\ last_call' = Called("clean", location)
        /\ UNCHANGED <<state, agent, model, last_position, max_actions, i,
                       action, result, pc, nDecide, nApplied, state0, model0,
                       peer, memo>>

\* world.move(new_location)
EnvMove ==
    \E new_location \in Loc :
        /\ pc = "idle"
        /\ world' = move(world, new_location)
        /\ last_call' = Called("move", new_location)
        /\ UNCHANGED <<state, agent, model, last_position, max_actions, i,
                       action, result, pc, nDecide, nApplied, state0, model0,
                       peer, memo>>

\* The client assigns to an entry of the dict it was handed; the
\* environment's dict changes with it only if it is the same object.
SnapshotWrite ==
    \E key \in {"A", "B", "position"} :
        \E val \in (IF key = "position" THEN Loc ELSE BOOLEAN) :
            /\ pc = "idle"
            /\ last_call.op \in {"reset", "get_state", "write"}
            /\ state' = [state EXCEPT ![key] = val]
            /\ world' = IF returns_own_dict THEN state' ELSE world
            /\ last_call' = Called("write", key)
            /\ UNCHANGED <<agent, model, last_position, max_actions, i, action,
                           result, pc, nDecide, nApplied, state0, model0, peer,
                           memo>>

ClientNext ==
    \/ EnvReset \/ EnvGetState \/ EnvClean \/ EnvMove \/ SnapshotWrite
    \/ Call \/ Decide \/ Apply \/ ExitLoop \/ Return

ClientSpec == Init /\ [][ClientNext]_vars

----------------------------------------------------------------------------
(* Properties *)

\* The reflex rule for a decision made in state s: Suck at a dirty location,
\* otherwise a move whose target is the other location.
ReflexRule(s, act) ==
    IF is_dirty(s, s.position)
    THEN act = "Suck"
    ELSE /\ act \in {"Left", "Right"}
         /\ MoveTarget(act) = Other(s.position)
         /\ act = (IF s.position = "A" THEN "Right" ELSE "Left")

\* C1: run_simulation never applies more than max_actions actions; it
\* returns True exactly when both locations are clean in the world those at
\* most max_actions actions produced, and it returns False only with all
\* max_actions actions applied and some location still dirty.
C1_ResultWithinBound ==
    /\ pc # "idle" => nApplied <= max_actions /\ nDecide <= max_actions
    /\ pc = "done" =>
        /\ result = ((~is_dirty(world, "A")) /\ (~is_dirty(world, "B")))
        /\ (nApplied = max_actions /\ (world.A \/ world.B)) => result = FALSE
        /\ result = FALSE => nApplied = max_actions

C1_Witness ==
    /\ pc = "done"
    /\ max_actions >= 2
    /\ nApplied = max_actions
    /\ (world.A \/ world.B)
    /\ result = FALSE

\* C2: whenever the TableBasedAgent has decided, its action is the reflex
\* rule's action for the state it was given: Suck when the occupied
\* location is dirty, otherwise Right at A and Left at B.
C2_TableIsReflexRule ==
    (pc = "apply" /\ agent = "TableBased") => ReflexRule(state, action)

\* C3: an episode of the TableBasedAgent and an episode of the ReflexAgent
\* started from the same state with the same max_actions have the same
\* world after the same number of steps, and return the same value.
C3_TableEpisodeEqualsReflexEpisode ==
    peer.pc # "off" =>
        /\ world = peer.world
        /\ (pc = "done" /\ peer.pc = "done") => result = peer.result

\* C4: whenever the ReflexAgent has decided, its action is Suck if the
\* occupied location of the state it was given is dirty, and otherwise the
\* move to the other location (Right at A, Left at B).
C4_ReflexRule ==
    (pc = "apply" /\ agent = "Reflex") => ReflexRule(state, action)

C4_Witness ==
    /\ pc = "apply"
    /\ agent = "Reflex"
    /\ state.position = "B"
    /\ ~state.B
    /\ state.A
    /\ action = "Left"

\* C5: after a ModelBasedAgent.decide_action call on state s, with the
\* belief left by any earlier calls: the action is Suck if the occupied
\* location is dirty; otherwise, if the belief about the other location is
\* True or None, it is the move to the other location; otherwise it is Left
\* or Right, and both are among the actions the call can return.
C5_ModelBasedRule ==
    (agent = "ModelBased" /\ action # "None") =>
        LET L == state.position
            O == Other(L)
            toward == IF L = "A" THEN "Right" ELSE "Left"
            returned == decide_action("ModelBased", model, state)
        IN  /\ action \in returned
            /\ IF is_dirty(state, L)
               THEN returned = {"Suck"}
               ELSE IF model[O] = Some(TRUE) \/ model[O] = None
               THEN returned = {toward} /\ MoveTarget(toward) = O
               ELSE returned = {"Left", "Right"}

\* The wandering branch returning the move to the occupied location.
C5_Witness ==
    /\ agent = "ModelBased"
    /\ state.position = "A"
    /\ ~state.A
    /\ model.B = Some(FALSE)
    /\ action = "Left"

\* C6: in every episode run with the ModelBasedAgent, the belief is None
\* for both locations when the first decide_action of the episode is
\* called, whatever the agent believed when the episode was entered.
C6_BeliefResetPerEpisode ==
    (agent = "ModelBased" /\ pc = "loop" /\ nDecide = 0) =>
        /\ model.A = None
        /\ model.B = None

\* An episode entered with beliefs left by an earlier one.
C6_Witness ==
    /\ agent = "ModelBased"
    /\ pc = "loop"
    /\ nDecide = 0
    /\ loop_continues(i, max_actions)
    /\ model0.A # None
    /\ model0.B # None
    /\ model.A = None
    /\ model.B = None

\* C7: a ModelBasedAgent.decide_action call made at location L sets the
\* belief for L to the dirt value of L in the state passed to the call and
\* leaves the belief for the other location as it was.
C7_BeliefUpdatedOnlyAtPosition ==
    [][(pc = "loop" /\ pc' = "apply" /\ agent = "ModelBased") =>
        /\ model'[state.position] = Some(state[state.position])
        /\ model'[Other(state.position)] = model[Other(state.position)]]_vars

\* A decision made at B by an agent that already holds a belief about A.
C7_Witness ==
    /\ agent = "ModelBased"
    /\ pc = "apply"
    /\ state.position = "B"
    /\ model.B = Some(state.B)
    /\ model.A = Some(FALSE)

\* C8: with max_actions = 0, run_simulation calls no decide_action, applies
\* no action, and returns True exactly when the state produced by reset has
\* both locations clean.
C8_ZeroActions ==
    (pc # "idle" /\ max_actions = 0) =>
        /\ nDecide = 0
        /\ nApplied = 0
        /\ world = state0
        /\ pc = "done" => result = ((~state0.A) /\ (~state0.B))

C8_Witness ==
    /\ pc = "done"
    /\ max_actions = 0
    /\ ~state0.A
    /\ ~state0.B
    /\ result = TRUE

\* C9: once both locations are clean after an applied action, the episode
\* makes no further decide_action call, applies no further action, and its
\* next step is the return of True.
C9_StopsOnceClean ==
    [][(pc \in {"loop", "apply", "return"} /\ nApplied >= 1 /\ is_clean(world)) =>
        /\ nDecide' = nDecide
        /\ nApplied' = nApplied
        /\ world' = world
        /\ pc' = "done"
        /\ result' = TRUE]_vars

\* An episode that returned True before using up max_actions.
C9_Witness ==
    /\ pc = "done"
    /\ nApplied >= 1
    /\ nApplied < max_actions
    /\ is_clean(world)
    /\ result = TRUE

Scenario2 == [A |-> FALSE, B |-> TRUE, position |-> "A"]

\* C10: from the state {A clean, B dirty, position A}, an episode of the
\* ReflexAgent (with max_actions at least 2) first decides and applies the
\* move to B, leaving B dirty, then decides and applies Suck, after which
\* both locations are clean; it applies exactly two actions and returns True.
C10_Scenario2 ==
    (pc # "idle" /\ agent = "Reflex" /\ state0 = Scenario2 /\ max_actions >= 2) =>
        /\ nApplied <= 2
        /\ nDecide <= 2
        /\ nApplied = 0 => world = Scenario2
        /\ (nDecide = 1 /\ pc = "apply") => action = "Right"
        /\ nApplied = 1 => world = [A |-> FALSE, B |-> TRUE, position |-> "B"]
        /\ (nDecide = 2 /\ pc = "apply") => action = "Suck"
        /\ nApplied = 2 => (is_clean(world) /\ pc \in {"return", "done"})
        /\ pc \in {"return", "done"} => nApplied = 2
        /\ pc = "done" => result = TRUE

C10_Witness ==
    /\ pc = "done"
    /\ agent = "Reflex"
    /\ state0 = Scenario2
    /\ nDecide = 2
    /\ nApplied = 2
    /\ world = [A |-> FALSE, B |-> FALSE, position |-> "B"]
    /\ result = TRUE

\* C11: from the state {A clean, B dirty, position A}, an episode of the
\* ModelBasedAgent (memory reset by run_simulation, max_actions at least 2)
\* applies exactly two actions: the first call sets belief[A] to clean,
\* finds belief[B] unknown and returns the move to B; the second call sets
\* belief[B] to dirty and returns Suck; the episode then returns True.
C11_Scenario4 ==
    (pc # "idle" /\ agent = "ModelBased" /\ state0 = Scenario2 /\ max_actions >= 2) =>
        /\ nApplied <= 2
        /\ nDecide <= 2
        /\ nDecide = 0 => model = [A |-> None, B |-> None]
        /\ nDecide = 1 => model = [A |-> Some(FALSE), B |-> None]
        /\ (nDecide = 1 /\ pc = "apply") => action = "Right"
        /\ nApplied = 1 => world = [A |-> FALSE, B |-> TRUE, position |-> "B"]
        /\ nDecide = 2 => model = [A |-> Some(FALSE), B |-> Some(TRUE)]
        /\ (nDecide = 2 /\ pc = "apply") => action = "Suck"
        /\ nApplied = 2 => (is_clean(world) /\ pc \in {"return", "done"})
        /\ pc \in {"return", "done"} => nApplied = 2
        /\ pc = "done" => result = TRUE

C11_Witness ==
    /\ pc = "done"
    /\ agent = "ModelBased"
    /\ state0 = Scenario2
    /\ nDecide = 2
    /\ nApplied = 2
    /\ model = [A |-> Some(FALSE), B |-> Some(TRUE)]
    /\ world = [A |-> FALSE, B |-> FALSE, position |-> "B"]
    /\ result = TRUE

\* C12: after a clean(loc) call, is_dirty(loc) is False whatever the world
\* was before, and a clean(loc) call made right after a clean(loc) call
\* leaves both dirt flags and the position as they were.
C12_CleanIdempotent ==
    [][(pc = "idle" /\ pc' = "idle" /\ last_call'.op = "clean") =>
        /\ is_dirty(world', last_call'.loc) = FALSE
        /\ last_call'.again => world' = world]_vars

\* A second clean of the same location, made where the agent is not.
C12_Witness ==
    /\ pc = "idle"
    /\ last_call.op = "clean"
    /\ last_call.again
    /\ last_call.loc # world.position
    /\ ~is_dirty(world, last_call.loc)
    /\ is_dirty(world, Other(last_call.loc))

\* C13: a decide_action call of any of the four agents leaves the
\* environment's dirt flags and position unchanged; inside an episode the
\* environment changes only in the step of run_simulation that applies an
\* action, and then by clean of the occupied location or by a move; and a
\* write to the dict that reset or get_state returned does not change the
\* environment.
C13_EnvironmentChangesOnlyByCleanAndMove ==
    [][/\ (pc = "loop" /\ pc' = "apply") => world' = world
       /\ (pc \in {"loop", "apply", "return"} /\ world' # world) =>
            /\ pc = "apply"
            /\ action \in Actions
            /\ world' \in {clean(world, world.position), move(world, "A"),
                           move(world, "B")}
       /\ (pc = "idle" /\ pc' = "idle" /\ last_call'.op \in {"write", "get_state"}) =>
            world' = world]_vars

\* The client's copy after writes that made it differ from the environment
\* in every entry.
C13_Witness ==
    /\ pc = "idle"
    /\ last_call.op = "write"
    /\ state.A # world.A
    /\ state.B # world.B
    /\ state.position # world.position

\* C14: a TableBasedAgent.decide_action call whose triple (position, dirty
\* at A, dirty at B) equals the triple of an earlier call, whatever calls
\* of whatever agents were made in between, returns the action the earlier
\* call returned.
C14_TableAnswerRepeats ==
    (agent = "TableBased" /\ action # "None" /\ memo.key = TableKey(state)) =>
        action = memo.action

\* A later call with the remembered triple, ModelBasedAgent calls having
\* been made meanwhile.
C14_Witness ==
    /\ agent = "TableBased"
    /\ memo.old
    /\ memo.key = TableKey(state)
    /\ action = memo.action
    /\ model.A # None
    /\ model.B # None

\* C15: every decide_action call made in an episode, of any of the four
\* agents, returns Suck, Left or Right, and every decision is applied by
\* one of the three branches of run_simulation.
C15_CanonicalActions ==
    /\ pc = "apply" => (action \in {"Suck", "Left", "Right"} /\ nApplied = nDecide - 1)
    /\ pc \in {"loop", "return", "done"} => nApplied = nDecide

\* The ModelBasedAgent has decided with beliefs about both locations.
C15_Witness ==
    /\ pc = "apply"
    /\ agent = "ModelBased"
    /\ model.A # None
    /\ model.B # None
    /\ action = "Suck"
    /\ nDecide = 3

\* C16: whenever the TableBasedAgent is asked to decide in an episode, the
\* key built from the state is a key of the table, so the lookup's default
\* is not used.
C16_TableKeyPresent ==
    (agent = "TableBased" /\ pc \in {"loop", "apply"}) =>
        TableKey(state) \in DOMAIN table

C16_Witness ==
    /\ agent = "TableBased"
    /\ pc = "apply"
    /\ TableKey(state) = <<"B", FALSE, FALSE>>
    /\ action = table[TableKey(state)]

\* C17: an episode of the ReflexAgent or of the ModelBasedAgent with
\* max_actions at least 3 applies at most 3 actions and returns True, from
\* each of the 8 reset states; it applies 3 actions only when both
\* locations start dirty.
C17_ThreeActionsSuffice ==
    (pc # "idle" /\ agent \in {"Reflex", "ModelBased"} /\ max_actions >= 3) =>
        /\ nApplied <= 3
        /\ nDecide <= 3
        /\ nApplied = 3 => (state0.A /\ state0.B)
        /\ pc = "done" => result = TRUE

C17_Witness ==
    /\ pc = "done"
    /\ agent = "ModelBased"
    /\ max_actions = 3
    /\ state0.A
    /\ state0.B
    /\ nApplied = 3
    /\ result = TRUE

\* C18: in an episode of the ModelBasedAgent, every decision made at a
\* clean location finds the belief about the other location unknown (None),
\* so neither the known-dirty branch nor the random branch is taken, and
\* every action the ModelBasedAgent returns is the action the ReflexAgent
\* returns for the same state.
C18_ModelBasedActsAsReflex ==
    (agent = "ModelBased" /\ pc = "apply") =>
        /\ ~is_dirty(state, state.position) => model[Other(state.position)] = None
        /\ {action} = ReflexAgent_decide_action(state)

\* A decision at a clean location made while the agent holds a belief
\* about the location it stands on from an earlier step.
C18_Witness ==
    /\ agent = "ModelBased"
    /\ pc = "apply"
    /\ nDecide = 2
    /\ ~is_dirty(state, state.position)
    /\ model[Other(state.position)] = None
    /\ action = "Left"

\* C19: inside an episode, of any agent, no step makes a clean location
\* dirty: a location that is clean stays clean, and a world with both
\* locations clean stays so.
C19_CleanStaysClean ==
    [][(pc \in {"loop", "apply", "return"}) =>
        /\ \A location \in Loc :
               (~is_dirty(world, location) => ~is_dirty(world', location))
        /\ (is_clean(world) => is_clean(world'))]_vars

\* The RandomAgent has sucked at a location that was clean already.
C19_Witness ==
    /\ agent = "Random"
    /\ pc = "loop"
    /\ action = "Suck"
    /\ nApplied >= 2
    /\ ~state0[world.position]
    /\ ~is_dirty(world, world.position)
    /\ is_dirty(world, Other(world.position))

\* C20: when reset yields a state with both locations clean and
\* max_actions is at least 1, the episode makes exactly one decide_action
\* call and applies exactly one action before it returns True: the goal is
\* tested only after an action has been applied.
C20_GoalCheckedAfterAction ==
    (pc # "idle" /\ is_clean(state0) /\ max_actions >= 1) =>
        /\ nDecide <= 1
        /\ nApplied <= 1
        /\ pc \in {"return", "done"} => (nDecide = 1 /\ nApplied = 1)
        /\ (pc = "loop" => nDecide = 0)
        /\ pc = "done" => result = TRUE

C20_Witness ==
    /\ pc = "done"
    /\ is_clean(state0)
    /\ max_actions >= 2
    /\ nDecide = 1
    /\ nApplied = 1
    /\ result = TRUE

====
